---- MODULE Spec2Model ----
(***************************************************************************)
(* Model of q2_diversity/_beta/_visualizer.py: the four visualizers        *)
(* bioenv, beta_group_significance, beta_rarefaction and mantel.           *)
(*                                                                         *)
(* One behaviour is one call of one visualizer.  Init draws the function   *)
(* called and its arguments; every action is one step of that function's   *)
(* body, in source order.  The output directory is the set `files`.  The   *)
(* routines of scikit-bio (permanova/anosim, mantel, pwmantel, bioenv)     *)
(* are outside the repository: each either returns or raises, and the      *)
(* model takes both outcomes.                                              *)
(*                                                                         *)
(* Sample ids are the numbers 1..n; their numeric order stands for the     *)
(* order of the id strings.                                                *)
(***************************************************************************)
EXTENDS Integers, Sequences, FiniteSets, TLC

\* ------------------------------------------------------------------ bounds
NumIds == 4          \* ids a distance matrix of mantel draws from
MaxIter == 4         \* largest `iterations` of beta_rarefaction
NumRows == 2         \* samples (rows) of the metadata given to bioenv
NumSamples == 4      \* samples of the metadata given to beta_group_significance
MaxP == 3            \* a permutation p-value is one of 1/MaxP .. MaxP/MaxP

\* ----------------------------------------------------------------- helpers
Min(S) == CHOOSE x \in S : \A y \in S : x <= y

RECURSIVE SortedSeq(_)
\* sorted(S) for a set of ids
SortedSeq(S) ==
    IF S = {} THEN <<>>
    ELSE LET m == Min(S) IN <<m>> \o SortedSeq(S \ {m})

Range(s) == { s[i] : i \in DOMAIN s }

NoError == [kind |-> "none", detail |-> <<>>]

RECURSIVE SumOver(_, _)
\* the sum of f[x] over the x of S
SumOver(f, S) ==
    IF S = {} THEN 0
    ELSE LET x == CHOOSE y \in S : TRUE IN f[x] + SumOver(f, S \ {x})

\* ------------------------------------------------- metadata values, pandas
\* A metadata cell is a string; "" is a cell without data.  "NaN" stands for
\* numpy.nan (a missing value) wherever it appears.
Strings == {"9", "10", "x", ""}

\* whether pandas parses the cell as a number ("" parses, as NaN)
ParsesNumeric(v) == v \in {"9", "10", "", "NaN"}

\* the number a numeric cell holds
NumOf(v) == CASE v = "9" -> 9 [] v = "10" -> 10

\* the position of a string among the strings, in Python's string order
StrRank(v) == CASE v = "" -> 0 [] v = "10" -> 1 [] v = "9" -> 2 [] v = "x" -> 3

\* a mutant: a column is numeric as soon as one cell parses
ToNumericPerCell(vals) ==
    IF \E k \in DOMAIN vals : ParsesNumeric(vals[k]) /\ vals[k] # ""
    THEN [numeric |-> TRUE,
          vals |-> [k \in DOMAIN vals |->
                      IF vals[k] \in {"9", "10"} THEN vals[k] ELSE "NaN"]]
    ELSE [numeric |-> FALSE, vals |-> vals]

\* pd.to_numeric(x, errors='ignore') on one column or series: when every cell
\* parses the result is numeric, "" having become NaN; when some cell does not
\* parse the column is returned as it was, strings
ToNumeric(vals) ==
    IF \A k \in DOMAIN vals : ParsesNumeric(vals[k])
    THEN [numeric |-> TRUE,
          vals |-> [k \in DOMAIN vals |->
                      IF vals[k] = "" THEN "NaN" ELSE vals[k]]]
    ELSE [numeric |-> FALSE, vals |-> vals]

\* skbio DistanceMatrix.filter(ids, strict): the matrix restricted to `keep`;
\* strict mode fails when a requested id is absent, lenient mode keeps the
\* intersection.
Filter(ids, keep, strict) ==
    IF strict /\ ~(keep \subseteq ids)
    THEN [ok |-> FALSE, ids |-> ids]
    ELSE [ok |-> TRUE, ids |-> ids \cap keep]

VARIABLES
    fn,              \* the visualizer called
    pc,              \* position in its body; "done" returned, "raised" failed
    files,           \* the files written to output_dir so far, each the
                     \* pair <<prefix, rest of the name>>
    err,             \* the exception raised, NoError while none
    \* ---- mantel
    in_dm1, in_dm2,  \* id sets of the arguments dm1, dm2
    intersect_ids,   \* argument
    dm1, dm2,        \* id sets of the locals dm1, dm2 (rebound by the filter)
    mismatched_ids,  \* local
    mantel_call,     \* <<ids1, ids2>> handed to skbio mantel, <<>> before
    \* ---- beta_rarefaction
    metric,          \* argument
    phylogeny,       \* argument: TRUE a tree was given, FALSE it is None
    iterations,      \* argument
    distance_matrices, \* local: one entry (its pwmantel label) per matrix
    sm_df,           \* local: index of the pwmantel frame, a set of <<dm1, dm2>>
    sm,              \* local: the unstacked statistic matrix
    \* ---- bioenv
    in_df,           \* argument metadata, as a frame: column -> row -> string
    df,              \* local: [index: rows, col: column -> [numeric, vals]]
    filtered_categorical_cols,    \* local
    filtered_zero_variance_cols,  \* local
    bioenv_dm,       \* id set of the local distance_matrix
    dm_lengths,      \* <<initial_dm_length, filtered_dm_length>>
    bioenv_call,     \* the columns of the frame handed to skbio bioenv
    \* ---- beta_group_significance
    method,          \* argument
    pairwise,        \* argument
    in_metadata,     \* argument metadata, as a series: sample id -> string
    in_dm,           \* argument distance_matrix: its ids, in order
    metadata,        \* local: [numeric, index: ids in row order, vals]
    distance_matrix, \* local: id set of the (filtered) matrix
    bgs_lengths,     \* <<initial_dm_length, filtered_dm_length>>
    groupings,       \* local: sequence of [id: label, samples: ids in order]
    group_idx,       \* position of the boxplot loop in groupings
    group_distances, \* local: the lists of the last boxplot, as id pairs
    x_ticklabels,    \* local: the labels of the last boxplot, <<label, n>>
    pairwise_results,  \* local: the rows appended so far, in the order produced
    pairwise_calls,  \* what each pairwise test was run on, same order
    pairwise_csv     \* the table written to <method>-pairwise.csv

commonVars == <<fn, pc, files, err>>
mantelArgs == <<in_dm1, in_dm2, intersect_ids>>
mantelVars == <<in_dm1, in_dm2, intersect_ids, dm1, dm2, mismatched_ids,
                mantel_call>>
rareArgs == <<metric, phylogeny, iterations>>
rareVars == <<metric, phylogeny, iterations, distance_matrices, sm_df, sm>>
bioenvVars == <<in_df, df, filtered_categorical_cols,
                filtered_zero_variance_cols, bioenv_dm, dm_lengths, bioenv_call>>
bgsArgs == <<method, pairwise, in_metadata, in_dm>>
bgsVars == <<method, pairwise, in_metadata, in_dm, metadata, distance_matrix,
             bgs_lengths, groupings, group_idx, group_distances, x_ticklabels,
             pairwise_results, pairwise_calls, pairwise_csv>>
vars == <<commonVars, mantelVars, rareVars, bioenvVars, bgsVars>>

\* ================================================================== mantel
IdSets == (SUBSET (1..NumIds)) \ {{}}

MantelInit ==
    /\ in_dm1 \in IdSets
    /\ in_dm2 \in IdSets
    /\ intersect_ids \in BOOLEAN
    /\ dm1 = in_dm1
    /\ dm2 = in_dm2
    /\ mismatched_ids = {}
    /\ mantel_call = <<>>

MantelIdle ==
    /\ in_dm1 = {}
    /\ in_dm2 = {}
    /\ intersect_ids = FALSE
    /\ dm1 = {}
    /\ dm2 = {}
    /\ mismatched_ids = {}
    /\ mantel_call = <<>>

\* a mutant: only the ids dm1 has and dm2 lacks
MismatchedIdsOneSided(ids1, ids2) == ids1 \ ids2

\* ids1 ^ ids2
MismatchedIds(ids1, ids2) == (ids1 \ ids2) \cup (ids2 \ ids1)

\* lines 297-308: the symmetric difference, and the error on a mismatch
MantelFindMismatched ==
    /\ fn = "mantel" /\ pc = "start"
    /\ mismatched_ids' = MismatchedIds(dm1, dm2)
    /\ IF ~intersect_ids /\ mismatched_ids' # {}
       THEN /\ pc' = "raised"
            /\ err' = [kind |-> "IdMismatch",
                       detail |-> SortedSeq(mismatched_ids')]
       ELSE /\ pc' = "filter"
            /\ err' = err
    /\ UNCHANGED <<fn, files, mantelArgs, dm1, dm2, mantel_call, rareVars, bioenvVars, bgsVars>>

\* a mutant: the filter keeps every id of either matrix
MatchedIdsUnion(ids1, ids2) == ids1 \cup ids2

\* ids1 & ids2
MatchedIds(ids1, ids2) == ids1 \cap ids2

\* lines 310-315: both matrices filtered (strict) to the matched ids
MantelFilter ==
    /\ fn = "mantel" /\ pc = "filter"
    /\ IF mismatched_ids # {}
       THEN LET matched_ids == MatchedIds(dm1, dm2)
                f1 == Filter(dm1, matched_ids, TRUE)
                f2 == Filter(dm2, matched_ids, TRUE)
            IN IF f1.ok /\ f2.ok
               THEN /\ dm1' = f1.ids
                    /\ dm2' = f2.ids
                    /\ pc' = "test"
                    /\ err' = err
               ELSE /\ UNCHANGED <<dm1, dm2>>
                    /\ pc' = "raised"
                    /\ err' = [kind |-> "Delegated", detail |-> <<>>]
       ELSE /\ UNCHANGED <<dm1, dm2, err>>
            /\ pc' = "test"
    /\ UNCHANGED <<fn, files, mantelArgs, mismatched_ids, mantel_call, rareVars, bioenvVars, bgsVars>>

\* lines 318-320: skbio mantel on the two matrices; it returns or raises
MantelTest ==
    /\ fn = "mantel" /\ pc = "test"
    /\ mantel_call' = <<dm1, dm2>>
    /\ \E returns \in BOOLEAN :
         IF returns
         THEN pc' = "scatter" /\ err' = err
         ELSE pc' = "raised" /\ err' = [kind |-> "Delegated", detail |-> <<>>]
    /\ UNCHANGED <<fn, files, mantelArgs, dm1, dm2, mismatched_ids, rareVars, bioenvVars, bgsVars>>

\* lines 322-344: the result table and the scatter plot, saved
MantelScatter ==
    /\ fn = "mantel" /\ pc = "scatter"
    /\ files' = files \cup {<<"", "mantel-scatter.svg">>}
    /\ pc' = "render"
    /\ UNCHANGED <<fn, err, mantelVars, rareVars, bioenvVars, bgsVars>>

\* lines 346-353: the report
MantelRender ==
    /\ fn = "mantel" /\ pc = "render"
    /\ files' = files \cup {<<"", "index.html">>}
    /\ pc' = "done"
    /\ UNCHANGED <<fn, err, mantelVars, rareVars, bioenvVars, bgsVars>>

\* ======================================================== beta_rarefaction
\* phylogenetic_metrics() of q2_diversity._beta._method
phylogenetic_metrics == {"unweighted_unifrac", "weighted_unifrac"}

Metrics == {"braycurtis", "unweighted_unifrac"}

EmptyMatrix == [rows |-> {}, cols |-> {}, cell |-> <<>>]

RareInit ==
    /\ metric \in Metrics
    /\ phylogeny \in BOOLEAN
    /\ iterations \in 1..MaxIter
    /\ distance_matrices = <<>>
    /\ sm_df = {}
    /\ sm = EmptyMatrix

RareIdle ==
    /\ metric = "braycurtis"
    /\ phylogeny = FALSE
    /\ iterations = 1
    /\ distance_matrices = <<>>
    /\ sm_df = {}
    /\ sm = EmptyMatrix

\* lines 231-239: a phylogenetic metric needs a tree
RareCheckPhylogeny ==
    /\ fn = "beta_rarefaction" /\ pc = "start"
    /\ IF metric \in phylogenetic_metrics /\ ~phylogeny
       THEN /\ pc' = "raised"
            /\ err' = [kind |-> "MissingPhylogeny", detail |-> <<metric>>]
       ELSE /\ pc' = "rarefy"
            /\ err' = err
    /\ UNCHANGED <<fn, files, mantelVars, rareVars, bioenvVars, bgsVars>>

\* lines 268-275, one pass of the loop of _get_multiple_rarefaction: rarefy and
\* beta_func return a matrix, which is appended, or raise
RareIterate ==
    /\ fn = "beta_rarefaction" /\ pc = "rarefy"
    /\ Len(distance_matrices) < iterations
    /\ \E returns \in BOOLEAN :
         IF returns
         THEN /\ distance_matrices' =
                    Append(distance_matrices, Len(distance_matrices))
              /\ pc' = IF Len(distance_matrices') = iterations
                       THEN "pwmantel" ELSE "rarefy"
              /\ err' = err
         ELSE /\ distance_matrices' = distance_matrices
              /\ pc' = "raised"
              /\ err' = [kind |-> "Delegated", detail |-> <<>>]
    /\ UNCHANGED <<fn, files, mantelVars, rareArgs, sm_df, sm, bioenvVars, bgsVars>>

\* a mutant: every matrix is also correlated with itself
PwmantelWithDiagonal(dms) ==
    { <<dms[p[1]], dms[p[2]]>> :
        p \in { q \in (DOMAIN dms) \X (DOMAIN dms) : q[1] <= q[2] } }

\* skbio pwmantel: one row per pair of matrices, itertools.combinations order,
\* indexed by (dm1, dm2), the labels being the positions 0..n-1
Pwmantel(dms) ==
    { <<dms[p[1]], dms[p[2]]>> :
        p \in { q \in (DOMAIN dms) \X (DOMAIN dms) : q[1] < q[2] } }

\* sm_df[['statistic']].unstack(level=0): index level 0 (dm1) becomes the
\* columns, level 1 (dm2) stays as the rows; a cell without a row in the frame
\* is NaN
Unstack(keys) ==
    LET cols == { k[1] : k \in keys }
        rows == { k[2] : k \in keys }
    IN [rows |-> rows, cols |-> cols,
        cell |-> [rc \in rows \X cols |->
                    IF <<rc[2], rc[1]>> \in keys THEN "statistic" ELSE "NaN"]]

\* lines 244-248: pwmantel over the matrices (it returns or raises), then the
\* statistic column reshaped
RarePwmantel ==
    /\ fn = "beta_rarefaction" /\ pc = "pwmantel"
    /\ \E returns \in BOOLEAN :
         IF returns
         THEN /\ sm_df' = Pwmantel(distance_matrices)
              /\ sm' = Unstack(sm_df')
              /\ pc' = "heatmap"
              /\ err' = err
         ELSE /\ UNCHANGED <<sm_df, sm>>
              /\ pc' = "raised"
              /\ err' = [kind |-> "Delegated", detail |-> <<>>]
    /\ UNCHANGED <<fn, files, mantelVars, rareArgs, distance_matrices, bioenvVars, bgsVars>>

\* lines 250-258
RareHeatmap ==
    /\ fn = "beta_rarefaction" /\ pc = "heatmap"
    /\ files' = files \cup {<<"", "heatmap.svg">>}
    /\ pc' = "tsv"
    /\ UNCHANGED <<fn, err, mantelVars, rareVars, bioenvVars, bgsVars>>

\* lines 260-262
RareTsv ==
    /\ fn = "beta_rarefaction" /\ pc = "tsv"
    /\ files' = files \cup {<<"", "rarefaction-iteration-correlation.tsv">>}
    /\ pc' = "render"
    /\ UNCHANGED <<fn, err, mantelVars, rareVars, bioenvVars, bgsVars>>

\* lines 264-265
RareRender ==
    /\ fn = "beta_rarefaction" /\ pc = "render"
    /\ files' = files \cup {<<"", "index.html">>}
    /\ pc' = "done"
    /\ UNCHANGED <<fn, err, mantelVars, rareVars, bioenvVars, bgsVars>>

\* ================================================================== bioenv
Cols == {"c1", "c2", "c3"}

BioenvRows == 1..NumRows

\* the distance matrix of bioenv: every metadata row and one sample more
BioenvDmIds == 1..(NumRows + 1)

EmptyFrame == [index |-> {}, col |-> <<>>]

BioenvInit ==
    /\ in_df \in [Cols -> [BioenvRows -> Strings]]
    /\ df = EmptyFrame
    /\ filtered_categorical_cols = {}
    /\ filtered_zero_variance_cols = {}
    /\ bioenv_dm = BioenvDmIds
    /\ dm_lengths = <<0, 0>>
    /\ bioenv_call = <<>>

BioenvIdle ==
    /\ in_df = <<>>
    /\ df = EmptyFrame
    /\ filtered_categorical_cols = {}
    /\ filtered_zero_variance_cols = {}
    /\ bioenv_dm = {}
    /\ dm_lengths = <<0, 0>>
    /\ bioenv_call = <<>>

\* lines 38-39: every column through pd.to_numeric(errors='ignore')
BioenvToNumeric ==
    /\ fn = "bioenv" /\ pc = "start"
    /\ df' = [index |-> BioenvRows,
              col |-> [c \in DOMAIN in_df |-> ToNumeric(in_df[c])]]
    /\ pc' = "categorical"
    /\ UNCHANGED <<fn, files, err, mantelVars, rareVars, bgsVars, in_df,
                   filtered_categorical_cols, filtered_zero_variance_cols,
                   bioenv_dm, dm_lengths, bioenv_call>>

\* df.select_dtypes([numpy.number]): the numeric columns
SelectNumeric(d) ==
    [index |-> d.index,
     col |-> [c \in { k \in DOMAIN d.col : d.col[k].numeric } |-> d.col[c]]]

\* df.dropna(): the rows that hold no NaN in any column
DropNa(d) ==
    [index |-> { r \in d.index : \A c \in DOMAIN d.col : d.col[c].vals[r] # "NaN" },
     col |-> d.col]

\* lines 41-44
BioenvFilterCategorical ==
    /\ fn = "bioenv" /\ pc = "categorical"
    /\ LET pre_filtered_cols == DOMAIN df.col
       IN /\ df' = DropNa(SelectNumeric(df))
          /\ filtered_categorical_cols' = pre_filtered_cols \ DOMAIN df'.col
    /\ pc' = "variance"
    /\ UNCHANGED <<fn, files, err, mantelVars, rareVars, bgsVars, in_df,
                   filtered_zero_variance_cols, bioenv_dm, dm_lengths,
                   bioenv_call>>

\* (df.var() != 0)[c]: the sample variance (ddof=1) of column c over the rows
\* of the frame is NaN with fewer than two rows, and NaN != 0 is True;
\* otherwise it is zero exactly when n * sum(x^2) = sum(x)^2
VarIsNonZero(d, c) ==
    LET n == Cardinality(d.index)
        x == [r \in d.index |-> NumOf(d.col[c].vals[r])]
        xx == [r \in d.index |-> x[r] * x[r]]
    IN IF n < 2 THEN TRUE
       ELSE n * SumOver(xx, d.index) # SumOver(x, d.index) * SumOver(x, d.index)

\* lines 46-49
BioenvFilterZeroVariance ==
    /\ fn = "bioenv" /\ pc = "variance"
    /\ LET pre_filtered_cols == DOMAIN df.col
       IN /\ df' = [index |-> df.index,
                    col |-> [c \in { k \in DOMAIN df.col : VarIsNonZero(df, k) }
                               |-> df.col[c]]]
          /\ filtered_zero_variance_cols' = pre_filtered_cols \ DOMAIN df'.col
    /\ pc' = "filter_dm"
    /\ UNCHANGED <<fn, files, err, mantelVars, rareVars, bgsVars, in_df,
                   filtered_categorical_cols, bioenv_dm, dm_lengths,
                   bioenv_call>>

\* lines 54-56: the matrix filtered (lenient) to the rows that are left
BioenvFilterDm ==
    /\ fn = "bioenv" /\ pc = "filter_dm"
    /\ bioenv_dm' = Filter(bioenv_dm, df.index, FALSE).ids
    /\ dm_lengths' = <<Cardinality(bioenv_dm), Cardinality(bioenv_dm')>>
    /\ pc' = "statistic"
    /\ UNCHANGED <<fn, files, err, mantelVars, rareVars, bgsVars, in_df, df,
                   filtered_categorical_cols, filtered_zero_variance_cols,
                   bioenv_call>>

\* lines 58-59: skbio bioenv on the matrix and the frame; it returns or raises
BioenvStatistic ==
    /\ fn = "bioenv" /\ pc = "statistic"
    /\ bioenv_call' = <<DOMAIN df.col>>
    /\ \E returns \in BOOLEAN :
         IF returns
         THEN pc' = "render" /\ err' = err
         ELSE pc' = "raised" /\ err' = [kind |-> "Delegated", detail |-> <<>>]
    /\ UNCHANGED <<fn, files, mantelVars, rareVars, bgsVars, in_df, df,
                   filtered_categorical_cols, filtered_zero_variance_cols,
                   bioenv_dm, dm_lengths>>

\* lines 61-67: the report
BioenvRender ==
    /\ fn = "bioenv" /\ pc = "render"
    /\ files' = files \cup {<<"", "index.html">>}
    /\ pc' = "done"
    /\ UNCHANGED <<fn, err, mantelVars, rareVars, bioenvVars, bgsVars>>

\* ================================================= beta_group_significance
\* the keys of _beta_group_significance_fns (line 70)
_beta_group_significance_fns == {"permanova", "anosim"}

Methods == _beta_group_significance_fns \cup {"bogus"}

BgsSamples == 1..NumSamples

\* a cell of the metadata category: a string, or no value at all
BgsValues == Strings \cup {"NaN"}

\* the ids of the matrix: every sample of the metadata, or all but the last
BgsDmIds == { [i \in 1..n |-> i] : n \in {NumSamples - 1, NumSamples} }

EmptySeries == [numeric |-> FALSE, index |-> <<>>, vals |-> <<>>]

BgsInit ==
    /\ method \in Methods
    /\ pairwise \in BOOLEAN
    /\ in_metadata \in [BgsSamples -> BgsValues]
    /\ in_dm \in BgsDmIds
    /\ metadata = EmptySeries
    /\ distance_matrix = Range(in_dm)
    /\ bgs_lengths = <<0, 0>>
    /\ groupings = <<>>
    /\ group_idx = 0
    /\ group_distances = <<>>
    /\ x_ticklabels = <<>>
    /\ pairwise_results = <<>>
    /\ pairwise_calls = <<>>
    /\ pairwise_csv = <<>>

BgsIdle ==
    /\ method = "permanova"
    /\ pairwise = FALSE
    /\ in_metadata = <<>>
    /\ in_dm = <<>>
    /\ metadata = EmptySeries
    /\ distance_matrix = {}
    /\ bgs_lengths = <<0, 0>>
    /\ groupings = <<>>
    /\ group_idx = 0
    /\ group_distances = <<>>
    /\ x_ticklabels = <<>>
    /\ pairwise_results = <<>>
    /\ pairwise_calls = <<>>
    /\ pairwise_csv = <<>>

\* lines 118-124: the method looked up
BgsCheckMethod ==
    /\ fn = "beta_group_significance" /\ pc = "start"
    /\ IF method \in _beta_group_significance_fns
       THEN /\ pc' = "align"
            /\ err' = err
       ELSE /\ pc' = "raised"
            /\ err' = [kind |-> "InvalidOption", detail |-> <<method>>]
    /\ UNCHANGED <<fn, files, mantelVars, rareVars, bioenvVars, bgsVars>>

\* metadata.loc[list(ids)]: the rows of the ids, in their order
Loc(series, ids) ==
    [numeric |-> series.numeric, index |-> ids,
     vals |-> [i \in Range(ids) |-> series.vals[i]]]

\* a mutant: the empty strings are left alone
ReplaceEmptyKept(series) == series

\* metadata.replace(r'', numpy.nan)
ReplaceEmpty(series) ==
    [series EXCEPT !.vals =
        [i \in DOMAIN series.vals |->
            IF series.vals[i] = "" THEN "NaN" ELSE series.vals[i]]]

\* metadata.dropna()
DropNaSeries(series) ==
    LET keep == SelectSeq(series.index, LAMBDA i : series.vals[i] # "NaN")
    IN [numeric |-> series.numeric, index |-> keep,
        vals |-> [i \in Range(keep) |-> series.vals[i]]]

\* lines 130-139: the category cast to numeric where it can be, cut to the ids
\* of the matrix, its rows without a value dropped, and the matrix filtered
\* (strict) to the rows that are left
BgsAlign ==
    /\ fn = "beta_group_significance" /\ pc = "align"
    /\ LET numeric == ToNumeric(in_metadata)
           series == [numeric |-> numeric.numeric,
                      index |-> [i \in 1..NumSamples |-> i],
                      vals |-> numeric.vals]
           aligned == DropNaSeries(ReplaceEmpty(Loc(series, in_dm)))
           filtered == Filter(distance_matrix, Range(aligned.index), TRUE)
       IN /\ metadata' = aligned
          /\ IF filtered.ok
             THEN /\ distance_matrix' = filtered.ids
                  /\ bgs_lengths' = <<Cardinality(distance_matrix),
                                      Cardinality(filtered.ids)>>
                  /\ pc' = "global_test"
                  /\ err' = err
             ELSE /\ UNCHANGED <<distance_matrix, bgs_lengths>>
                  /\ pc' = "raised"
                  /\ err' = [kind |-> "Delegated", detail |-> <<>>]
    /\ UNCHANGED <<fn, files, mantelVars, rareVars, bioenvVars, bgsArgs,
                   groupings, group_idx, group_distances, x_ticklabels,
                   pairwise_results, pairwise_calls, pairwise_csv>>

\* lines 142-143: the test on the whole matrix; it returns or raises
BgsGlobalTest ==
    /\ fn = "beta_group_significance" /\ pc = "global_test"
    /\ \E returns \in BOOLEAN :
         IF returns
         THEN pc' = "groupings" /\ err' = err
         ELSE pc' = "raised" /\ err' = [kind |-> "Delegated", detail |-> <<>>]
    /\ UNCHANGED <<fn, files, mantelVars, rareVars, bioenvVars, bgsVars>>

\* the position of a group label in the order Python sorts the labels by:
\* numbers by value, strings as strings
LabelKey(numeric, v) == IF numeric THEN NumOf(v) ELSE StrRank(v)

RECURSIVE SortLabels(_, _)
\* sorted(labels)
SortLabels(S, numeric) ==
    IF S = {} THEN <<>>
    ELSE LET m == CHOOSE x \in S :
                    \A y \in S : LabelKey(numeric, x) <= LabelKey(numeric, y)
         IN <<m>> \o SortLabels(S \ {m}, numeric)

RECURSIVE FirstAppearance(_)
\* the distinct entries of a sequence, each where it first appears
FirstAppearance(seq) ==
    IF seq = <<>> THEN <<>>
    ELSE LET rest == FirstAppearance(SubSeq(seq, 1, Len(seq) - 1))
             last == seq[Len(seq)]
         IN IF last \in Range(rest) THEN rest ELSE Append(rest, last)

\* the rows of one group, in row order
GroupSamples(series, label) ==
    SelectSeq(series.index, LAMBDA i : series.vals[i] = label)

\* a mutant: the groups in the order their labels appear in the rows
GroupingsByAppearance(series) ==
    LET labels == FirstAppearance([k \in DOMAIN series.index |->
                                      series.vals[series.index[k]]])
    IN [k \in DOMAIN labels |->
          [id |-> labels[k], samples |-> GroupSamples(series, labels[k])]]

\* lines 152-154: OrderedDict of (label, ids of the group), sorted by label
Groupings(series) ==
    LET labels == SortLabels({ series.vals[i] : i \in Range(series.index) },
                             series.numeric)
    IN [k \in DOMAIN labels |->
          [id |-> labels[k], samples |-> GroupSamples(series, labels[k])]]

\* lines 152-154
BgsGroupings ==
    /\ fn = "beta_group_significance" /\ pc = "groupings"
    /\ groupings' = Groupings(metadata)
    /\ group_idx' = 1
    /\ pc' = "boxplots"
    /\ UNCHANGED <<fn, files, err, mantelVars, rareVars, bioenvVars, bgsArgs,
                   metadata, distance_matrix, bgs_lengths, group_distances,
                   x_ticklabels, pairwise_results, pairwise_calls,
                   pairwise_csv>>

RECURSIVE Flatten(_)
\* the concatenation of a sequence of sequences
Flatten(ss) == IF ss = <<>> THEN <<>> ELSE Head(ss) \o Flatten(Tail(ss))

\* a mutant: every sample is also paired with itself
WithinGroupDistancesWithSelf(group) ==
    Flatten([i \in DOMAIN group |-> [j \in 1..i |-> <<group[i], group[j]>>]])

\* lines 79-83: distance_matrix[sid1, sid2] for sid1 at position i and every
\* sid2 of group[:i]; a distance is written as the pair of ids looked up
WithinGroupDistances(group) ==
    Flatten([i \in DOMAIN group |->
               [j \in 1..(i - 1) |-> <<group[i], group[j]>>]])

\* lines 93-95: distance_matrix[sid1, sid2] for sid1 of group, sid2 of other
BetweenGroupDistances(group, other_group) ==
    Flatten([i \in DOMAIN group |->
               [j \in DOMAIN other_group |-> <<group[i], other_group[j]>>]])

\* lines 74-99: <<all_group_distances, x_ticklabels>> for the group at
\* position g of the groupings
_get_distance_boxplot_data(g, grps) ==
    LET group == grps[g].samples
        within_group_distances == WithinGroupDistances(group)
        others == SelectSeq([k \in DOMAIN grps |-> k], LAMBDA k : k # g)
        between == [k \in DOMAIN others |->
                      BetweenGroupDistances(group, grps[others[k]].samples)]
    IN << <<within_group_distances>> \o between,
          <<<<grps[g].id, Len(within_group_distances)>>>> \o
             [k \in DOMAIN others |-> <<grps[others[k]].id, Len(between[k])>>] >>

\* where the body goes once the boxplots are drawn (lines 179-183, 211-212)
AfterBoxplots ==
    IF pairwise
    THEN IF Len(groupings) >= 2 THEN "pairwise_test" ELSE "pairwise_table"
    ELSE "render"

\* lines 156-177, one pass of the loop: the boxplot of one group, saved as png
\* and pdf
BgsBoxplot ==
    /\ fn = "beta_group_significance" /\ pc = "boxplots"
    /\ group_idx <= Len(groupings)
    /\ LET data == _get_distance_boxplot_data(group_idx, groupings)
       IN /\ group_distances' = data[1]
          /\ x_ticklabels' = data[2]
    /\ files' = files \cup {<<groupings[group_idx].id, "-boxplots.png">>,
                            <<groupings[group_idx].id, "-boxplots.pdf">>}
    /\ group_idx' = group_idx + 1
    /\ pc' = IF group_idx' <= Len(groupings) THEN "boxplots" ELSE AfterBoxplots
    /\ UNCHANGED <<fn, err, mantelVars, rareVars, bioenvVars, bgsArgs, metadata,
                   distance_matrix, bgs_lengths, groupings, pairwise_results,
                   pairwise_calls, pairwise_csv>>

\* lines 156, 179-183: no group at all, so no boxplot
BgsNoBoxplot ==
    /\ fn = "beta_group_significance" /\ pc = "boxplots"
    /\ group_idx > Len(groupings)
    /\ pc' = AfterBoxplots
    /\ UNCHANGED <<fn, files, err, mantelVars, rareVars, bioenvVars, bgsVars>>

\* itertools.combinations(seq, 2)
Combinations(seq) ==
    Flatten([i \in DOMAIN seq |->
               [j \in 1..(Len(seq) - i) |-> <<seq[i], seq[i + j]>>]])

\* the samples of the group with the given label
GroupOf(grps, label) ==
    grps[CHOOSE k \in DOMAIN grps : grps[k].id = label].samples

\* a mutant: the test of a pair is run on the first group alone
PairSamplesFirstOnly(grps, group1_id, group2_id) == GroupOf(grps, group1_id)

\* line 105: groupings[group1_id] + groupings[group2_id]
PairSamples(grps, group1_id, group2_id) ==
    GroupOf(grps, group1_id) \o GroupOf(grps, group2_id)

\* lines 102-109: what the test of a pair is called with
_get_pairwise_group_significance_stats(dm, group1_id, group2_id, grps, series) ==
    LET group1_group2_samples == PairSamples(grps, group1_id, group2_id)
    IN [metadata |-> Loc(series, group1_group2_samples),
        distance_matrix |-> Filter(dm, Range(group1_group2_samples), TRUE)]

\* lines 183-198, one pass of the loop: the test of the next pair of groups;
\* it returns, with the size of the matrix it was given as its sample size and
\* some p-value, or it raises
BgsPairwiseTest ==
    /\ fn = "beta_group_significance" /\ pc = "pairwise_test"
    /\ LET pairs == Combinations([k \in DOMAIN groupings |-> groupings[k].id])
           n == Len(pairwise_results) + 1
           call == _get_pairwise_group_significance_stats(
                       distance_matrix, pairs[n][1], pairs[n][2], groupings,
                       metadata)
       IN /\ n <= Len(pairs)
          /\ \E returns \in BOOLEAN, p \in 1..MaxP :
               IF returns /\ call.distance_matrix.ok
               THEN /\ pairwise_results' = Append(pairwise_results,
                          [g1 |-> pairs[n][1], g2 |-> pairs[n][2],
                           sample_size |->
                               Cardinality(call.distance_matrix.ids),
                           p |-> p])
                    /\ pairwise_calls' = Append(pairwise_calls,
                          [g1 |-> pairs[n][1], g2 |-> pairs[n][2],
                           distance_matrix |-> call.distance_matrix.ids,
                           metadata |-> call.metadata])
                    /\ pc' = IF n = Len(pairs) THEN "pairwise_table"
                             ELSE "pairwise_test"
                    /\ err' = err
               ELSE /\ p = 1
                    /\ UNCHANGED <<pairwise_results, pairwise_calls>>
                    /\ pc' = "raised"
                    /\ err' = [kind |-> "Delegated", detail |-> <<>>]
    /\ UNCHANGED <<fn, files, mantelVars, rareVars, bioenvVars, bgsArgs,
                   metadata, distance_matrix, bgs_lengths, groupings,
                   group_idx, group_distances, x_ticklabels, pairwise_csv>>

RECURSIVE Fact(_)
Fact(n) == IF n <= 1 THEN 1 ELSE n * Fact(n - 1)

RECURSIVE ArgSortRec(_, _)
ArgSortRec(ps, S) ==
    IF S = {} THEN <<>>
    ELSE LET i == CHOOSE x \in S :
                    \A y \in S : ps[x] < ps[y] \/ (ps[x] = ps[y] /\ x <= y)
         IN <<i>> \o ArgSortRec(ps, S \ {i})

\* numpy.argsort(ps): the positions of ps, by ascending p-value
ArgSort(ps) == ArgSortRec(ps, DOMAIN ps)

\* the q-values, by ascending p-value: p * m / rank, then the running minimum
\* from the largest p-value down, then the cap at 1.  A p-value is ps[i] / MaxP
\* and a q-value is the result / (MaxP * m!), so that both are integers.
FdrBhSorted(ps) ==
    LET m == Len(ps)
        order == ArgSort(ps)
        raw == [k \in 1..m |-> (ps[order[k]] * m * Fact(m)) \div k]
        cummin == [k \in 1..m |-> Min({ raw[l] : l \in k..m })]
    IN [k \in 1..m |-> Min({cummin[k], MaxP * Fact(m)})]

\* a mutant: the q-values are left in the order of the sorted p-values
FdrBhNotReordered(ps) == FdrBhSorted(ps)

\* multipletests(ps, method='fdr_bh')[1]: the Benjamini-Hochberg q-values, in
\* the order of ps
FdrBh(ps) ==
    LET order == ArgSort(ps)
        sorted == FdrBhSorted(ps)
    IN [i \in DOMAIN ps |->
          sorted[CHOOSE k \in DOMAIN order : order[k] = i]]

\* whether row r comes before row s in the order of the index (Group 1, Group 2)
RowBefore(r, s, numeric) ==
    \/ LabelKey(numeric, r.g1) < LabelKey(numeric, s.g1)
    \/ /\ r.g1 = s.g1
       /\ LabelKey(numeric, r.g2) <= LabelKey(numeric, s.g2)

RECURSIVE SortIndexRec(_, _, _)
SortIndexRec(rows, S, numeric) ==
    IF S = {} THEN <<>>
    ELSE LET i == CHOOSE x \in S : \A y \in S :
                    \/ (RowBefore(rows[x], rows[y], numeric)
                        /\ ~RowBefore(rows[y], rows[x], numeric))
                    \/ (RowBefore(rows[y], rows[x], numeric)
                        /\ RowBefore(rows[x], rows[y], numeric) /\ x <= y)
         IN <<rows[i]>> \o SortIndexRec(rows, S \ {i}, numeric)

\* pairwise_results.sort_index(): the rows, whole, by (Group 1, Group 2)
SortIndex(rows, numeric) == SortIndexRec(rows, DOMAIN rows, numeric)

\* lines 199-208: the frame of the rows, the q-value column computed from the
\* p-value column, the frame sorted by its index and written
BgsPairwiseTable ==
    /\ fn = "beta_group_significance" /\ pc = "pairwise_table"
    /\ LET ps == [k \in DOMAIN pairwise_results |-> pairwise_results[k].p]
           qs == FdrBh(ps)
           frame == [k \in DOMAIN pairwise_results |->
                        [g1 |-> pairwise_results[k].g1,
                         g2 |-> pairwise_results[k].g2,
                         sample_size |-> pairwise_results[k].sample_size,
                         p |-> pairwise_results[k].p,
                         q |-> qs[k]]]
       IN pairwise_csv' = SortIndex(frame, metadata.numeric)
    /\ files' = files \cup {<<method, "-pairwise.csv">>}
    /\ pc' = "render"
    /\ UNCHANGED <<fn, err, mantelVars, rareVars, bioenvVars, bgsArgs, metadata,
                   distance_matrix, bgs_lengths, groupings, group_idx,
                   group_distances, x_ticklabels, pairwise_results,
                   pairwise_calls>>

\* lines 214-223: the report
BgsRender ==
    /\ fn = "beta_group_significance" /\ pc = "render"
    /\ files' = files \cup {<<"", "index.html">>}
    /\ pc' = "done"
    /\ UNCHANGED <<fn, err, mantelVars, rareVars, bioenvVars, bgsVars>>

\* =========================================================== specification
Init ==
    /\ fn \in {"mantel", "beta_rarefaction", "bioenv", "beta_group_significance"}
    /\ pc = "start"
    /\ files = {}
    /\ err = NoError
    /\ IF fn = "mantel" THEN MantelInit ELSE MantelIdle
    /\ IF fn = "beta_rarefaction" THEN RareInit ELSE RareIdle
    /\ IF fn = "bioenv" THEN BioenvInit ELSE BioenvIdle
    /\ IF fn = "beta_group_significance" THEN BgsInit ELSE BgsIdle

Next ==
    \/ MantelFindMismatched
    \/ MantelFilter
    \/ MantelTest
    \/ MantelScatter
    \/ MantelRender
    \/ RareCheckPhylogeny
    \/ RareIterate
    \/ RarePwmantel
    \/ RareHeatmap
    \/ RareTsv
    \/ RareRender
    \/ BioenvToNumeric
    \/ BioenvFilterCategorical
    \/ BioenvFilterZeroVariance
    \/ BioenvFilterDm
    \/ BioenvStatistic
    \/ BioenvRender
    \/ BgsCheckMethod
    \/ BgsAlign
    \/ BgsGlobalTest
    \/ BgsGroupings
    \/ BgsBoxplot
    \/ BgsNoBoxplot
    \/ BgsPairwiseTest
    \/ BgsPairwiseTable
    \/ BgsRender

Spec == Init /\ [][Next]_vars

\* ================================================================== claims
Returned == {"scatter", "render", "done"}

\* the ids held by exactly one of two id sets
InExactlyOne(A, B) == { i \in A \cup B : ~(i \in A /\ i \in B) }

\* C1: in mantel the mismatched ids are exactly the ids found in one matrix
\* and not in the other; when there are some and intersect_ids is false the
\* call fails with the id-mismatch error, whose message lists each of them
\* once, neither matrix has been filtered and the correlation test has not
\* been run.
C1_MismatchError ==
    (fn = "mantel" /\ pc # "start") =>
        /\ mismatched_ids = InExactlyOne(in_dm1, in_dm2)
        /\ (~intersect_ids /\ InExactlyOne(in_dm1, in_dm2) # {}) =>
              /\ pc = "raised"
              /\ err.kind = "IdMismatch"
              /\ Range(err.detail) = InExactlyOne(in_dm1, in_dm2)
              /\ Len(err.detail) = Cardinality(InExactlyOne(in_dm1, in_dm2))
              /\ dm1 = in_dm1 /\ dm2 = in_dm2
              /\ mantel_call = <<>>

C1_Witness ==
    /\ fn = "mantel" /\ pc = "raised" /\ err.kind = "IdMismatch"
    /\ in_dm1 \ in_dm2 # {}
    /\ in_dm2 \ in_dm1 # {}
    /\ Len(err.detail) >= 3

\* the case of C2: lenient mode, id sets that overlap and differ
C2_Case ==
    /\ fn = "mantel" /\ intersect_ids
    /\ in_dm1 \cap in_dm2 # {}
    /\ in_dm1 # in_dm2

\* C2 as stated: in that case the call succeeds, and the two matrices handed
\* to the correlation test both have the id set ids(dm1) & ids(dm2).
C2_Original ==
    C2_Case =>
        /\ pc # "raised"
        /\ mantel_call # <<>> =>
              mantel_call = <<in_dm1 \cap in_dm2, in_dm1 \cap in_dm2>>

\* C2, amended: in that case the call never fails on the id mismatch or in the
\* filter; it always gets to the correlation test, the two matrices handed to
\* it both have the id set ids(dm1) & ids(dm2), and the call fails only when
\* the correlation test itself raises.
C2_Amended ==
    C2_Case =>
        /\ err.kind \in {"none", "Delegated"}
        /\ pc \in Returned \cup {"raised"} => mantel_call # <<>>
        /\ pc = "test" =>
              dm1 = in_dm1 \cap in_dm2 /\ dm2 = in_dm1 \cap in_dm2
        /\ mantel_call # <<>> =>
              mantel_call = <<in_dm1 \cap in_dm2, in_dm1 \cap in_dm2>>

C2_Witness ==
    /\ fn = "mantel" /\ intersect_ids /\ pc = "done"
    /\ in_dm1 = {1, 2, 3}
    /\ in_dm2 = {1, 2, 4}
    /\ mismatched_ids = {3, 4}
    /\ mantel_call = <<{1, 2}, {1, 2}>>

\* C3: whenever a call ends in an error, no file has been written to the
\* output directory.
C3_NoPartialOutput == pc = "raised" => files = {}

\* the correlation matrix of beta_rarefaction has been built
RareMatrixBuilt ==
    fn = "beta_rarefaction" /\ pc \in {"heatmap", "tsv", "render", "done"}

\* C4 as stated: with iterations = n the matrix has one row and one column for
\* each of the n iterations.
C4_Original ==
    RareMatrixBuilt =>
        /\ Cardinality(sm.rows) = iterations
        /\ Cardinality(sm.cols) = iterations

\* C4, amended: with iterations = n the matrix is built from the Mantel
\* statistics of the pairs i < j of the n per-iteration matrices; it is square
\* with n - 1 rows and n - 1 columns, a row for each of the iterations
\* 1..n-1 and a column for each of the iterations 0..n-2, and the cell of row
\* r and column c holds a statistic exactly when c < r.
C4_Amended ==
    RareMatrixBuilt =>
        /\ Len(distance_matrices) = iterations
        /\ sm_df = { k \in (0..(iterations - 1)) \X (0..(iterations - 1)) :
                       k[1] < k[2] }
        /\ sm.rows = 1..(iterations - 1)
        /\ sm.cols = 0..(iterations - 2)
        /\ Cardinality(sm.rows) = Cardinality(sm.cols)
        /\ \A r \in sm.rows, c \in sm.cols :
              (sm.cell[<<r, c>>] = "statistic") <=> (c < r)

C4_Witness ==
    /\ fn = "beta_rarefaction" /\ pc = "done"
    /\ iterations = 3
    /\ sm.rows = {1, 2}
    /\ sm.cols = {0, 1}

\* the boxplot data of the group before group_idx have been extracted
BoxplotExtracted ==
    fn = "beta_group_significance" /\ group_idx >= 2

RECURSIVE TotalLen(_)
TotalLen(ss) == IF ss = <<>> THEN 0 ELSE Len(Head(ss)) + TotalLen(Tail(ss))

\* C5: for a target group of size n whose other groups have sizes m1, m2, ...
\* the lists returned hold C(n,2) + n*(m1+m2+...) distances in all; the
\* within-group list holds each unordered pair of the group once, and the list
\* of each other group holds each (target sample, other sample) pair once.
C5_BoxplotCounts ==
    BoxplotExtracted =>
        LET g == group_idx - 1
            group == Range(groupings[g].samples)
            n == Cardinality(group)
            rest == (DOMAIN groupings) \ {g}
            sizes == [k \in rest |-> Cardinality(Range(groupings[k].samples))]
        IN /\ TotalLen(group_distances) =
                  (n * (n - 1)) \div 2 + n * SumOver(sizes, rest)
           /\ Len(group_distances) = Len(groupings)
           /\ Len(group_distances[1]) = (n * (n - 1)) \div 2
           /\ { {d[1], d[2]} : d \in Range(group_distances[1]) } =
                  { {a, b} : a \in group, b \in group } \ { {a} : a \in group }
           /\ \A k \in 2..Len(group_distances) :
                 LET o == IF k - 1 < g THEN k - 1 ELSE k
                     other == Range(groupings[o].samples)
                 IN /\ Range(group_distances[k]) = group \X other
                    /\ Len(group_distances[k]) = n * Cardinality(other)
                    /\ x_ticklabels[k] = <<groupings[o].id, n * Cardinality(other)>>

C5_Witness ==
    /\ BoxplotExtracted
    /\ Len(groupings) = 3
    /\ Len(groupings[group_idx - 1].samples) = 2
    /\ Len(group_distances[1]) = 1
    /\ TotalLen(group_distances) = 5

\* the alignment of beta_group_significance has run
BgsAligned == fn = "beta_group_significance" /\ bgs_lengths[1] > 0

\* C6: after the alignment the matrix used for the test holds exactly the ids
\* of the input matrix whose metadata value is neither missing nor the empty
\* string; the alignment itself raises no error; the filtered sample count is
\* at most the initial one.
C6_Alignment ==
    /\ (fn = "beta_group_significance" /\ pc = "raised"
            /\ err.kind # "InvalidOption") => BgsAligned
    /\ BgsAligned =>
          /\ distance_matrix =
                { i \in Range(in_dm) : in_metadata[i] \notin {"", "NaN"} }
          /\ bgs_lengths[1] = Len(in_dm)
          /\ bgs_lengths[2] = Cardinality(distance_matrix)
          /\ bgs_lengths[2] <= bgs_lengths[1]

C6_Witness ==
    /\ BgsAligned /\ pc = "done"
    /\ in_metadata = <<"9", "10", "", "x">>
    /\ in_dm = <<1, 2, 3, 4>>
    /\ distance_matrix = {1, 2, 4}
    /\ bgs_lengths = <<4, 3>>

\* the pairwise table has been written
PairwiseWritten ==
    fn = "beta_group_significance" /\ <<method, "-pairwise.csv">> \in files

\* the samples of the aligned matrix whose metadata value is the label
SamplesOf(label) == { i \in distance_matrix : metadata.vals[i] = label }

\* C7: the pairwise table has one row for every unordered pair of distinct
\* groups, C(k,2) rows for k groups, and the test of a row was run on the
\* matrix and the metadata cut to exactly the samples of its two groups, so
\* that its sample size is |group1| + |group2|.
C7_PairwiseRows ==
    PairwiseWritten =>
        LET labels == { metadata.vals[i] : i \in distance_matrix }
            k == Cardinality(labels)
        IN /\ Len(pairwise_csv) = (k * (k - 1)) \div 2
           /\ { {pairwise_csv[r].g1, pairwise_csv[r].g2} :
                    r \in DOMAIN pairwise_csv } =
                 { {a, b} : a \in labels, b \in labels } \ { {a} : a \in labels }
           /\ Len(pairwise_calls) = Len(pairwise_csv)
           /\ \A r \in DOMAIN pairwise_csv :
                 LET row == pairwise_csv[r]
                     both == SamplesOf(row.g1) \cup SamplesOf(row.g2)
                 IN /\ row.g1 # row.g2
                    /\ row.sample_size = Cardinality(SamplesOf(row.g1))
                                         + Cardinality(SamplesOf(row.g2))
                    /\ \E c \in DOMAIN pairwise_calls :
                          /\ pairwise_calls[c].g1 = row.g1
                          /\ pairwise_calls[c].g2 = row.g2
                          /\ pairwise_calls[c].distance_matrix = both
                          /\ Range(pairwise_calls[c].metadata.index) = both

C7_Witness ==
    /\ PairwiseWritten
    /\ Len(pairwise_csv) = 3
    /\ \E r \in DOMAIN pairwise_csv : pairwise_csv[r].sample_size = 3
    /\ \E r \in DOMAIN pairwise_csv : pairwise_csv[r].sample_size = 2

\* the order of two group labels: numbers by value when the category is
\* numeric, otherwise the strings "10" < "9" < "x"
LabelBefore(a, b) ==
    IF metadata.numeric
    THEN <<a, b>> \in {<<"9", "10">>}
    ELSE <<a, b>> \in {<<"10", "9">>, <<"10", "x">>, <<"9", "x">>}

\* C8: the pairwise table written is sorted by (Group 1, Group 2), and in
\* every row Group 1 comes before Group 2 in the ascending order of the group
\* labels, which is the order of the grouping.
C8_PairwiseSorted ==
    PairwiseWritten =>
        /\ \A r \in DOMAIN pairwise_csv, t \in DOMAIN pairwise_csv :
              r < t =>
                 \/ LabelBefore(pairwise_csv[r].g1, pairwise_csv[t].g1)
                 \/ /\ pairwise_csv[r].g1 = pairwise_csv[t].g1
                    /\ LabelBefore(pairwise_csv[r].g2, pairwise_csv[t].g2)
        /\ \A r \in DOMAIN pairwise_csv :
              /\ LabelBefore(pairwise_csv[r].g1, pairwise_csv[r].g2)
              /\ \E a \in DOMAIN groupings, b \in DOMAIN groupings :
                    /\ a < b
                    /\ groupings[a].id = pairwise_csv[r].g1
                    /\ groupings[b].id = pairwise_csv[r].g2

\* the labels appear in the metadata rows in descending order
C8_Witness ==
    /\ PairwiseWritten
    /\ Len(pairwise_csv) = 3
    /\ in_metadata[1] = "x" /\ in_metadata[2] = "9" /\ in_metadata[3] = "10"
    /\ pairwise_csv[1].g1 = "10" /\ pairwise_csv[1].g2 = "9"
    /\ pairwise_csv[3].g1 = "9" /\ pairwise_csv[3].g2 = "x"

\* bioenv has filtered the columns
BioenvFiltered ==
    fn = "bioenv" /\ pc \in {"filter_dm", "statistic", "render", "done", "raised"}

\* the columns of the metadata of bioenv in which some cell is not a number
CategoricalCols == { c \in Cols : \E r \in BioenvRows : in_df[c][r] = "x" }

\* the rows of the metadata of bioenv without a missing value in a numeric column
CompleteRows ==
    { r \in BioenvRows : \A c \in Cols \ CategoricalCols : in_df[c][r] # "" }

\* C9: filtered_categorical_cols is the set of columns in which some value
\* does not parse as numeric, filtered_zero_variance_cols is the set of numeric
\* columns whose variance over the rows without missing values is zero (all
\* values equal, over two rows or more), the two sets are disjoint, and the
\* columns in neither set are the ones passed to the statistic.
C9_ColumnFiltering ==
    BioenvFiltered =>
        /\ filtered_categorical_cols = CategoricalCols
        /\ filtered_zero_variance_cols =
              { c \in Cols \ CategoricalCols :
                  /\ Cardinality(CompleteRows) >= 2
                  /\ \A r \in CompleteRows, t \in CompleteRows :
                        in_df[c][r] = in_df[c][t] }
        /\ filtered_categorical_cols \cap filtered_zero_variance_cols = {}
        /\ bioenv_call # <<>> =>
              bioenv_call[1] = Cols \ (filtered_categorical_cols
                                       \cup filtered_zero_variance_cols)

C9_Witness ==
    /\ fn = "bioenv" /\ pc = "done"
    /\ in_df["c1"] = <<"x", "9">>
    /\ filtered_categorical_cols = {"c1"}
    /\ filtered_zero_variance_cols = {"c2"}
    /\ bioenv_call = <<{"c3"}>>

\* the Benjamini-Hochberg q-value of the p-value p among the p-values of rows,
\* in the unit of FdrBh: the least p' * m / #{p'' <= p'} over the p' >= p,
\* at most 1
BhOf(p, rows) ==
    LET m == Len(rows)
        atMost(x) == Cardinality({ t \in DOMAIN rows : rows[t].p <= x })
    IN Min({MaxP * Fact(m)} \cup
           { (rows[t].p * m * Fact(m)) \div atMost(rows[t].p) :
                t \in { u \in DOMAIN rows : rows[u].p >= p } })

\* C10: the rows of the table written are in the order the pairs were
\* produced, each row has the p-value its pair was given, and the q-value of a
\* row is the Benjamini-Hochberg correction of the row's own p-value among all
\* the pairwise p-values.
C10_QValuesAttached ==
    PairwiseWritten =>
        /\ Len(pairwise_csv) = Len(pairwise_results)
        /\ \A r \in DOMAIN pairwise_csv :
              /\ pairwise_csv[r].g1 = pairwise_results[r].g1
              /\ pairwise_csv[r].g2 = pairwise_results[r].g2
              /\ pairwise_csv[r].p = pairwise_results[r].p
              /\ pairwise_csv[r].q = BhOf(pairwise_csv[r].p, pairwise_results)

C10_Witness ==
    /\ PairwiseWritten
    /\ Len(pairwise_csv) = 3
    /\ pairwise_csv[1].p > pairwise_csv[2].p
    /\ pairwise_csv[1].q > pairwise_csv[2].q
    /\ pairwise_csv[2].q < MaxP * Fact(3)

====
